---- MODULE Spec2Model ----
(***************************************************************************)
(* Model of the broker configuration registry: Schema / Descriptor        *)
(* (pkg/model/config/schema.go), the Config Store contract and the        *)
(* broker view adapter (pkg/model/config/store.go).                       *)
(*                                                                         *)
(* Strings whose characters matter (Type, Plural, Name, Namespace) are     *)
(* sequences of one-character strings; opaque identifiers (message names,  *)
(* error texts) are TLA+ strings.                                          *)
(***************************************************************************)
EXTENDS Integers, Sequences, FiniteSets, TLC

VARIABLES
    store,          \* Config Store: key triple -> stored Entry or Absent
    pc,             \* per caller: "idle" | "called" | "returned"
    req,            \* per caller: the call in flight
    resp,           \* per caller: the result of the last call
    descriptor,     \* Descriptor under lookup (sequence of Schemas)
    lookup,         \* the lookup call: [op, typ, message]
    lookupResult,   \* result of the lookup call
    schema,         \* Schema under validation / conversion
    config,         \* proto message handed to Validate / ToJSONMap
    validateResult, \* result of Schema.Validate
    jsonMap,        \* result of Schema.ToJSONMap
    decoded,        \* result of Schema.FromJSONMap
    outcome,        \* the Descriptor / Schema conversion call and its result
    listed,         \* what Store.List answers, per listed type
    view,           \* the view / catalog call and its result
    run             \* the catalog() call in progress, and the writes beside it

vars == <<store, pc, req, resp, descriptor, lookup, lookupResult,
          schema, config, validateResult, jsonMap, decoded,
          outcome, listed, view, run>>

storeVars == <<store, pc, req, resp>>
descriptorVars == <<descriptor, lookup, lookupResult>>
schemaVars == <<schema, config, validateResult, jsonMap, decoded>>
viewVars == <<listed, view, run>>

None == "none"

(***************************************************************************)
(* Characters and strings                                                  *)
(***************************************************************************)
LowerAlnum ==
    {"a","b","c","d","e","f","g","h","i","j","k","l","m","n","o","p","q",
     "r","s","t","u","v","w","x","y","z","0","1","2","3","4","5","6","7",
     "8","9"}

Repeat(c, n) == [i \in 1..n |-> c]

dns1123LabelMaxLength == 63

\* dns1123LabelFmt = "[a-z0-9]([-a-z0-9]*[a-z0-9])?", anchored with ^ and $
dns1123LabelRex(value) ==
    /\ Len(value) >= 1
    /\ value[1] \in LowerAlnum
    /\ value[Len(value)] \in LowerAlnum
    /\ \A i \in 2..(Len(value) - 1) : value[i] \in LowerAlnum \cup {"-"}

isDNS1123Label(value) ==
    Len(value) <= dns1123LabelMaxLength /\ dns1123LabelRex(value)

(***************************************************************************)
(* Schemas                                                                 *)
(***************************************************************************)
serviceClassType == <<"s","e","r","v","i","c","e","-","c","l","a","s","s">>
serviceClassPlural == <<"s","e","r","v","i","c","e","-","c","l","a","s","s","e","s">>
servicePlanType == <<"s","e","r","v","i","c","e","-","p","l","a","n">>
servicePlanPlural == <<"s","e","r","v","i","c","e","-","p","l","a","n","s">>
mockConfigType == <<"m","o","c","k","-","c","o","n","f","i","g">>
mockConfigPlural == <<"m","o","c","k","-","c","o","n","f","i","g","s">>

ServiceClassMessage == "istio.broker.v1.config.ServiceClass"
ServicePlanMessage == "istio.broker.v1.config.ServicePlan"
MockConfigMessage == "test.MockConfig"

ServiceClass ==
    [Type |-> serviceClassType, Plural |-> serviceClassPlural,
     MessageName |-> ServiceClassMessage, AdditionalValidate |-> "nil"]

ServicePlan ==
    [Type |-> servicePlanType, Plural |-> servicePlanPlural,
     MessageName |-> ServicePlanMessage, AdditionalValidate |-> "nil"]

MockConfig ==
    [Type |-> mockConfigType, Plural |-> mockConfigPlural,
     MessageName |-> MockConfigMessage, AdditionalValidate |-> "mockValidate"]

\* Schema{} : the zero value of the struct
ZeroSchema ==
    [Type |-> <<>>, Plural |-> <<>>, MessageName |-> "", AdditionalValidate |-> "nil"]

\* proto.MessageType(name) # nil : the message types linked into the binary
MessageType(name) ==
    name \in {ServiceClassMessage, ServicePlanMessage, MockConfigMessage}

ErrNil == "nil"
ErrInvalidType == "invalid type"
ErrInvalidPlural == "invalid plural"
ErrNoMessageType == "cannot discover proto message type"
ErrEmptyKey == "empty key"
ErrRejected == "rejected"

\* ps.AdditionalValidate(config), for a non-nil validator
AdditionalValidate(v, msg) ==
    CASE v = "mockValidate" -> IF msg.key = "" THEN ErrEmptyKey ELSE ErrNil
      [] v = "rejectAll" -> ErrRejected
      [] OTHER -> ErrNil

\* mutant: AdditionalValidate runs first, structural checks afterwards
Validate_additionalFirst(ps, msg) ==
    IF ps.AdditionalValidate # "nil" /\ AdditionalValidate(ps.AdditionalValidate, msg) # ErrNil
    THEN [err |-> AdditionalValidate(ps.AdditionalValidate, msg),
          trace |-> <<"AdditionalValidate">>]
    ELSE IF ~isDNS1123Label(ps.Type)
    THEN [err |-> ErrInvalidType, trace |-> <<"AdditionalValidate", "Type">>]
    ELSE IF ~isDNS1123Label(ps.Plural)
    THEN [err |-> ErrInvalidPlural, trace |-> <<"AdditionalValidate", "Type", "Plural">>]
    ELSE IF ~MessageType(ps.MessageName)
    THEN [err |-> ErrNoMessageType,
          trace |-> <<"AdditionalValidate", "Type", "Plural", "MessageName">>]
    ELSE [err |-> ErrNil,
          trace |-> <<"AdditionalValidate", "Type", "Plural", "MessageName">>]

\* mutant: AdditionalValidate is never invoked
Validate_skipAdditional(ps, msg) ==
    IF ~isDNS1123Label(ps.Type)
    THEN [err |-> ErrInvalidType, trace |-> <<"Type">>]
    ELSE IF ~isDNS1123Label(ps.Plural)
    THEN [err |-> ErrInvalidPlural, trace |-> <<"Type", "Plural">>]
    ELSE IF ~MessageType(ps.MessageName)
    THEN [err |-> ErrNoMessageType, trace |-> <<"Type", "Plural", "MessageName">>]
    ELSE [err |-> ErrNil, trace |-> <<"Type", "Plural", "MessageName">>]

\* Schema.Validate: err is the returned error, trace the checks it ran, in order
Validate(ps, msg) ==
    IF ~isDNS1123Label(ps.Type)
    THEN [err |-> ErrInvalidType, trace |-> <<"Type">>]
    ELSE IF ~isDNS1123Label(ps.Plural)
    THEN [err |-> ErrInvalidPlural, trace |-> <<"Type", "Plural">>]
    ELSE IF ~MessageType(ps.MessageName)
    THEN [err |-> ErrNoMessageType, trace |-> <<"Type", "Plural", "MessageName">>]
    ELSE IF ps.AdditionalValidate # "nil"
    THEN [err |-> AdditionalValidate(ps.AdditionalValidate, msg),
          trace |-> <<"Type", "Plural", "MessageName", "AdditionalValidate">>]
    ELSE [err |-> ErrNil, trace |-> <<"Type", "Plural", "MessageName">>]

(***************************************************************************)
(* Descriptor                                                              *)
(***************************************************************************)
\* mutant: the types come out in reverse order
Types_reversed(d) == [i \in 1..Len(d) |-> d[Len(d) + 1 - i].Type]

Types(d) == [i \in 1..Len(d) |-> d[i].Type]

RECURSIVE GetByMessageNameFrom(_, _, _)
GetByMessageNameFrom(d, name, i) ==
    IF i > Len(d) THEN [schema |-> ZeroSchema, found |-> FALSE]
    ELSE IF d[i].MessageName = name THEN [schema |-> d[i], found |-> TRUE]
    ELSE GetByMessageNameFrom(d, name, i + 1)

GetByMessageName(d, name) == GetByMessageNameFrom(d, name, 1)

RECURSIVE GetByTypeFrom(_, _, _)
GetByTypeFrom(d, name, i) ==
    IF i > Len(d) THEN [schema |-> ZeroSchema, found |-> FALSE]
    ELSE IF d[i].Type = name THEN [schema |-> d[i], found |-> TRUE]
    ELSE GetByTypeFrom(d, name, i + 1)

\* mutant: a miss returns the last schema scanned instead of the zero value
GetByType_lastOnMiss(d, name) ==
    IF GetByTypeFrom(d, name, 1).found \/ Len(d) = 0
    THEN GetByTypeFrom(d, name, 1)
    ELSE [schema |-> d[Len(d)], found |-> FALSE]

GetByType(d, name) == GetByTypeFrom(d, name, 1)

(***************************************************************************)
(* Proto messages of the broker configuration                              *)
(*   ServiceClass { Deployment deployment; CatalogEntry entry }            *)
(*   ServicePlan  { CatalogPlan plan; repeated string services }           *)
(* A message-typed field is a pointer: present = FALSE is the nil pointer. *)
(***************************************************************************)
NilMessage == [kind |-> "nil"]

NilDeployment == [present |-> FALSE, instance |-> ""]
NilCatalog == [present |-> FALSE, name |-> "", id |-> "", description |-> ""]

ZeroServiceClass ==
    [kind |-> "ServiceClass", deployment |-> NilDeployment, entry |-> NilCatalog]
ZeroServicePlan ==
    [kind |-> "ServicePlan", plan |-> NilCatalog, services |-> <<>>]
ZeroMockConfig == [kind |-> "MockConfig", key |-> ""]

ErrUnknownType == "unknown type"

\* mutant: an unknown MessageName yields an instance of the mock message
Make_mockOnUnknown(ps) ==
    CASE ps.MessageName = ServiceClassMessage -> [err |-> ErrNil, msg |-> ZeroServiceClass]
      [] ps.MessageName = ServicePlanMessage -> [err |-> ErrNil, msg |-> ZeroServicePlan]
      [] OTHER -> [err |-> ErrNil, msg |-> ZeroMockConfig]

\* Schema.Make: a zero instance of the message type named by MessageName
Make(ps) ==
    CASE ps.MessageName = ServiceClassMessage -> [err |-> ErrNil, msg |-> ZeroServiceClass]
      [] ps.MessageName = ServicePlanMessage -> [err |-> ErrNil, msg |-> ZeroServicePlan]
      [] ps.MessageName = MockConfigMessage -> [err |-> ErrNil, msg |-> ZeroMockConfig]
      [] OTHER -> [err |-> ErrUnknownType, msg |-> NilMessage]

(***************************************************************************)
(* Generic trees: JSON values (and the Go values json.Unmarshal builds     *)
(* from them) and YAML nodes                                               *)
(***************************************************************************)
EmptyMap == [k \in {} |-> k]

JNull == [t |-> "null", s |-> "", f |-> EmptyMap, a |-> <<>>]
JStr(x) == [t |-> "str", s |-> x, f |-> EmptyMap, a |-> <<>>]
JBool(x) == [t |-> "bool", s |-> x, f |-> EmptyMap, a |-> <<>>]
JNum(x) == [t |-> "num", s |-> x, f |-> EmptyMap, a |-> <<>>]
JObj(fields) == [t |-> "obj", s |-> "", f |-> fields, a |-> <<>>]
JArr(elems) == [t |-> "arr", s |-> "", f |-> EmptyMap, a |-> elems]

YScalar(style, x) == [t |-> "scalar", style |-> style, s |-> x, f |-> EmptyMap, a |-> <<>>]
YMap(fields) == [t |-> "map", style |-> "", s |-> "", f |-> fields, a |-> <<>>]
YSeq(elems) == [t |-> "seq", style |-> "", s |-> "", f |-> EmptyMap, a |-> elems]

\* jsonpb.Marshaler{}: a string field is emitted unless it is empty
stringFields(m, names) ==
    [k \in {n \in names : m[n] # ""} |-> JStr(m[k])]

marshalDeployment(m) == JObj(stringFields(m, {"instance"}))
marshalCatalog(m) == JObj(stringFields(m, {"name", "id", "description"}))

\* jsonpb.Marshaler{}.MarshalToString: nil messages, empty strings and empty
\* repeated fields are left out (EmitDefaults is off)
marshalObject(m) ==
    CASE m.kind = "ServiceClass" ->
            JObj([k \in {n \in {"deployment", "entry"} : m[n].present} |->
                    IF k = "deployment" THEN marshalDeployment(m.deployment)
                    ELSE marshalCatalog(m.entry)])
      [] m.kind = "ServicePlan" ->
            JObj([k \in (IF m.plan.present THEN {"plan"} ELSE {})
                        \cup (IF m.services # <<>> THEN {"services"} ELSE {}) |->
                    IF k = "plan" THEN marshalCatalog(m.plan)
                    ELSE JArr([i \in 1..Len(m.services) |-> JStr(m.services[i])])])
      [] OTHER -> JObj(stringFields(m, {"key"}))

ErrMarshalNil == "Marshal called with nil"

\* Schema.ToJSON
ToJSON(ps, msg) ==
    IF msg.kind = "nil" THEN [err |-> ErrMarshalNil, js |-> JNull]
    ELSE [err |-> ErrNil, js |-> marshalObject(msg)]

ErrJSONUnmarshal == "json: cannot unmarshal into Go value of type map[string]interface {}"

\* Schema.ToJSONMap: ToJSON, then json.Unmarshal into a map[string]interface{}
ToJSONMap(ps, msg) ==
    LET r == ToJSON(ps, msg) IN
    IF r.err # ErrNil THEN [err |-> r.err, data |-> JNull]
    ELSE IF r.js.t \notin {"obj", "null"} THEN [err |-> ErrJSONUnmarshal, data |-> JNull]
    ELSE [err |-> ErrNil, data |-> r.js]

\* yaml.v2 resolve(): what a plain scalar is read as
YamlNullLiterals == {"", "~", "null", "Null", "NULL"}
YamlBoolLiterals == {"true", "True", "TRUE", "false", "False", "FALSE",
                     "y", "Y", "yes", "Yes", "YES", "on", "On", "ON",
                     "n", "N", "no", "No", "NO", "off", "Off", "OFF"}
YamlIntLiterals == {"0", "1", "42", "-1", "0x10"}
YamlFloatLiterals == {"1.5", ".inf", ".nan", "1e3"}

resolve(x) ==
    CASE x \in YamlNullLiterals -> "null"
      [] x \in YamlBoolLiterals -> "bool"
      [] x \in YamlIntLiterals -> "int"
      [] x \in YamlFloatLiterals -> "float"
      [] OTHER -> "str"

\* mutant: every string is written as a plain scalar
stringv_plain(x) == YScalar("plain", x)

\* yaml.v2 encoder.stringv: a string is written plain only if it would be
\* read back as a string, and quoted otherwise
stringv(x) ==
    IF resolve(x) = "str" THEN YScalar("plain", x) ELSE YScalar("quoted", x)

\* yaml.v2 Marshal of a generic value
RECURSIVE yamlMarshal(_)
yamlMarshal(v) ==
    CASE v.t = "obj" -> YMap([k \in DOMAIN v.f |-> yamlMarshal(v.f[k])])
      [] v.t = "arr" -> YSeq([i \in 1..Len(v.a) |-> yamlMarshal(v.a[i])])
      [] v.t = "str" -> stringv(v.s)
      [] v.t = "null" -> YScalar("plain", "null")
      [] OTHER -> YScalar("plain", v.s)

\* yaml.YAMLToJSON: parse the YAML document and re-encode it as JSON
RECURSIVE YAMLToJSON(_)
YAMLToJSON(y) ==
    CASE y.t = "map" -> JObj([k \in DOMAIN y.f |-> YAMLToJSON(y.f[k])])
      [] y.t = "seq" -> JArr([i \in 1..Len(y.a) |-> YAMLToJSON(y.a[i])])
      [] y.style = "quoted" -> JStr(y.s)
      [] resolve(y.s) = "null" -> JNull
      [] resolve(y.s) = "bool" -> JBool(y.s)
      [] resolve(y.s) \in {"int", "float"} -> JNum(y.s)
      [] OTHER -> JStr(y.s)

ErrUnknownField == "unknown field"
ErrBadValue == "json: cannot unmarshal into Go value"

\* jsonpb.Unmarshal of one string field: null leaves the zero value
stringField(j, name) ==
    IF name \in DOMAIN j.f /\ j.f[name].t = "str" THEN j.f[name].s ELSE ""

stringFieldsErr(j, names) ==
    IF j.t = "null" THEN ErrNil
    ELSE IF j.t # "obj" THEN ErrBadValue
    ELSE IF \E k \in DOMAIN j.f : k \notin names THEN ErrUnknownField
    ELSE IF \E k \in DOMAIN j.f : j.f[k].t \notin {"str", "null"} THEN ErrBadValue
    ELSE ErrNil

unmarshalDeployment(j) ==
    IF j.t # "obj" THEN NilDeployment
    ELSE [present |-> TRUE, instance |-> stringField(j, "instance")]

unmarshalCatalog(j) ==
    IF j.t # "obj" THEN NilCatalog
    ELSE [present |-> TRUE, name |-> stringField(j, "name"), id |-> stringField(j, "id"),
          description |-> stringField(j, "description")]

servicesErr(j) ==
    IF j.t = "null" THEN ErrNil
    ELSE IF j.t # "arr" THEN ErrBadValue
    ELSE IF \E i \in 1..Len(j.a) : j.a[i].t \notin {"str", "null"} THEN ErrBadValue
    ELSE ErrNil

unmarshalServices(j) ==
    IF j.t # "arr" THEN <<>>
    ELSE [i \in 1..Len(j.a) |-> IF j.a[i].t = "str" THEN j.a[i].s ELSE ""]

FieldOr(j, name) == IF name \in DOMAIN j.f THEN j.f[name] ELSE JNull

FirstErr(errs) ==
    IF \E i \in 1..Len(errs) : errs[i] # ErrNil
    THEN errs[CHOOSE i \in 1..Len(errs) :
                 errs[i] # ErrNil /\ \A k \in 1..(i - 1) : errs[k] = ErrNil]
    ELSE ErrNil

\* jsonpb.UnmarshalString(js, pb): fill pb from the JSON object; an unknown
\* field or a value of the wrong JSON type is an error
jsonpbUnmarshal(j, pb) ==
    IF j.t = "null" THEN [err |-> ErrNil, msg |-> pb]
    ELSE IF j.t # "obj" THEN [err |-> ErrBadValue, msg |-> NilMessage]
    ELSE CASE pb.kind = "ServiceClass" ->
            LET e == FirstErr(<<
                        IF DOMAIN j.f \subseteq {"deployment", "entry"}
                        THEN ErrNil ELSE ErrUnknownField,
                        stringFieldsErr(FieldOr(j, "deployment"), {"instance"}),
                        stringFieldsErr(FieldOr(j, "entry"), {"name", "id", "description"})>>)
            IN IF e # ErrNil THEN [err |-> e, msg |-> NilMessage]
               ELSE [err |-> ErrNil,
                     msg |-> [kind |-> "ServiceClass",
                              deployment |-> unmarshalDeployment(FieldOr(j, "deployment")),
                              entry |-> unmarshalCatalog(FieldOr(j, "entry"))]]
          [] pb.kind = "ServicePlan" ->
            LET e == FirstErr(<<
                        IF DOMAIN j.f \subseteq {"plan", "services"}
                        THEN ErrNil ELSE ErrUnknownField,
                        stringFieldsErr(FieldOr(j, "plan"), {"name", "id", "description"}),
                        servicesErr(FieldOr(j, "services"))>>)
            IN IF e # ErrNil THEN [err |-> e, msg |-> NilMessage]
               ELSE [err |-> ErrNil,
                     msg |-> [kind |-> "ServicePlan",
                              plan |-> unmarshalCatalog(FieldOr(j, "plan")),
                              services |-> unmarshalServices(FieldOr(j, "services"))]]
          [] OTHER ->
            LET e == stringFieldsErr(j, {"key"})
            IN IF e # ErrNil THEN [err |-> e, msg |-> NilMessage]
               ELSE [err |-> ErrNil, msg |-> [kind |-> "MockConfig", key |-> stringField(j, "key")]]

\* ApplyJSON
ApplyJSON(js, pb) == jsonpbUnmarshal(js, pb)

\* ApplyYAML: YAMLToJSON, then ApplyJSON
ApplyYAML(yml, pb) == ApplyJSON(YAMLToJSON(yml), pb)

\* Schema.FromYAML: Make, then ApplyYAML; a nil message on any error
FromYAML(ps, yml) ==
    IF Make(ps).err # ErrNil THEN [err |-> Make(ps).err, msg |-> NilMessage]
    ELSE IF ApplyYAML(yml, Make(ps).msg).err # ErrNil
    THEN [err |-> ApplyYAML(yml, Make(ps).msg).err, msg |-> NilMessage]
    ELSE [err |-> ErrNil, msg |-> ApplyYAML(yml, Make(ps).msg).msg]

ErrYAMLDecoding == "YAML decoding error"

\* Schema.FromJSONMap: yaml.v2 Marshal of the map, then FromYAML
FromJSONMap(ps, data) ==
    LET out == FromYAML(ps, yamlMarshal(data)) IN
    IF out.err # ErrNil THEN [err |-> ErrYAMLDecoding, cause |-> out.err, msg |-> NilMessage]
    ELSE [err |-> ErrNil, cause |-> ErrNil, msg |-> out.msg]

(***************************************************************************)
(* Descriptor conversions: FromJSON, FromYAML, ToYAML, and Schema.FromJSON *)
(* A JSONConfig is the metadata of an Entry with a generic tree as Spec;   *)
(* an Entry has a proto message as Spec.                                   *)
(***************************************************************************)
widgetType == <<"w","i","d","g","e","t">>

NoEntry ==
    [Type |-> <<>>, Name |-> <<>>, Namespace |-> <<>>, Annotations |-> "",
     ResourceVersion |-> "", Spec |-> ZeroMockConfig]

ErrUnknownSpecType == "unknown spec type"
ErrCannotParse == "cannot parse proto message"
ErrMissingType == "missing type"
ErrYAMLUnmarshal == "error unmarshaling YAML"

\* Schema.FromJSON: Make, then ApplyJSON; a nil message on any error
FromJSON(ps, js) ==
    IF Make(ps).err # ErrNil THEN [err |-> Make(ps).err, msg |-> NilMessage]
    ELSE IF ApplyJSON(js, Make(ps).msg).err # ErrNil
    THEN [err |-> ApplyJSON(js, Make(ps).msg).err, msg |-> NilMessage]
    ELSE [err |-> ErrNil, msg |-> ApplyJSON(js, Make(ps).msg).msg]

\* what a Descriptor conversion hands back when it returns a nil *Entry:
\* trace lists the calls made, message and validated are the locals
NoEntryResult ==
    [err |-> None, cause |-> ErrNil, returned |-> FALSE, entry |-> NoEntry,
     schema |-> ZeroSchema, message |-> NilMessage, validated |-> None, trace |-> <<>>]

\* &Entry{Meta: config.Meta, Spec: message}
EntryOf(cfg, message) == [cfg EXCEPT !.Spec = message]

\* mutant: a miss of GetByType goes on with the zero Schema it returned
DescriptorFromJSON_zeroSchemaOnMiss(d, cfg) ==
    LET g == GetByType(d, cfg.Type)
        m == FromJSONMap(g.schema, cfg.Spec)
        v == Validate(g.schema, m.msg)
    IN  IF m.err # ErrNil
        THEN [NoEntryResult EXCEPT !.err = ErrCannotParse, !.cause = m.err,
                                   !.schema = g.schema,
                                   !.trace = <<"GetByType", "FromJSONMap">>]
        ELSE IF v.err # ErrNil
        THEN [NoEntryResult EXCEPT !.err = v.err, !.schema = g.schema,
                                   !.message = m.msg, !.validated = v.err,
                                   !.trace = <<"GetByType", "FromJSONMap", "Validate">>]
        ELSE [NoEntryResult EXCEPT !.err = ErrNil, !.returned = TRUE,
                                   !.entry = EntryOf(cfg, m.msg), !.schema = g.schema,
                                   !.message = m.msg, !.validated = v.err,
                                   !.trace = <<"GetByType", "FromJSONMap", "Validate">>]

\* mutant: the Entry is returned although Validate failed
DescriptorFromJSON_entryOnInvalid(d, cfg) ==
    LET g == GetByType(d, cfg.Type)
        m == FromJSONMap(g.schema, cfg.Spec)
        v == Validate(g.schema, m.msg)
    IN  IF ~g.found
        THEN [NoEntryResult EXCEPT !.err = ErrUnknownSpecType, !.trace = <<"GetByType">>]
        ELSE IF m.err # ErrNil
        THEN [NoEntryResult EXCEPT !.err = ErrCannotParse, !.cause = m.err,
                                   !.schema = g.schema,
                                   !.trace = <<"GetByType", "FromJSONMap">>]
        ELSE [NoEntryResult EXCEPT !.err = v.err, !.returned = TRUE,
                                   !.entry = EntryOf(cfg, m.msg), !.schema = g.schema,
                                   !.message = m.msg, !.validated = v.err,
                                   !.trace = <<"GetByType", "FromJSONMap", "Validate">>]

\* mutant: the error of Validate is wrapped like the error of FromJSONMap
DescriptorFromJSON_wrapValidate(d, cfg) ==
    LET g == GetByType(d, cfg.Type)
        m == FromJSONMap(g.schema, cfg.Spec)
        v == Validate(g.schema, m.msg)
    IN  IF ~g.found
        THEN [NoEntryResult EXCEPT !.err = ErrUnknownSpecType, !.trace = <<"GetByType">>]
        ELSE IF m.err # ErrNil
        THEN [NoEntryResult EXCEPT !.err = ErrCannotParse, !.cause = m.err,
                                   !.schema = g.schema,
                                   !.trace = <<"GetByType", "FromJSONMap">>]
        ELSE IF v.err # ErrNil
        THEN [NoEntryResult EXCEPT !.err = ErrCannotParse, !.cause = v.err,
                                   !.schema = g.schema,
                                   !.message = m.msg, !.validated = v.err,
                                   !.trace = <<"GetByType", "FromJSONMap", "Validate">>]
        ELSE [NoEntryResult EXCEPT !.err = ErrNil, !.returned = TRUE,
                                   !.entry = EntryOf(cfg, m.msg), !.schema = g.schema,
                                   !.message = m.msg, !.validated = v.err,
                                   !.trace = <<"GetByType", "FromJSONMap", "Validate">>]

\* Descriptor.FromJSON: GetByType, Schema.FromJSONMap, Schema.Validate.
\* err is the returned error; cause is the error it wraps, if any
DescriptorFromJSON(d, cfg) ==
    LET g == GetByType(d, cfg.Type)
        m == FromJSONMap(g.schema, cfg.Spec)
        v == Validate(g.schema, m.msg)
    IN  IF ~g.found
        THEN [NoEntryResult EXCEPT !.err = ErrUnknownSpecType, !.trace = <<"GetByType">>]
        ELSE IF m.err # ErrNil
        THEN [NoEntryResult EXCEPT !.err = ErrCannotParse, !.cause = m.err,
                                   !.schema = g.schema,
                                   !.trace = <<"GetByType", "FromJSONMap">>]
        ELSE IF v.err # ErrNil
        THEN [NoEntryResult EXCEPT !.err = v.err, !.schema = g.schema,
                                   !.message = m.msg, !.validated = v.err,
                                   !.trace = <<"GetByType", "FromJSONMap", "Validate">>]
        ELSE [NoEntryResult EXCEPT !.err = ErrNil, !.returned = TRUE,
                                   !.entry = EntryOf(cfg, m.msg), !.schema = g.schema,
                                   !.message = m.msg, !.validated = v.err,
                                   !.trace = <<"GetByType", "FromJSONMap", "Validate">>]

\* Descriptor.FromYAML: yaml.Unmarshal into a JSONConfig, then FromJSON.
\* content.parses tells whether the bytes are YAML of a JSONConfig at all
DescriptorFromYAML(d, content) ==
    IF ~content.parses
    THEN [NoEntryResult EXCEPT !.err = ErrYAMLUnmarshal, !.trace = <<"yaml.Unmarshal">>]
    ELSE [DescriptorFromJSON(d, content.config) EXCEPT !.trace = <<"yaml.Unmarshal">> \o @]

\* the Meta embedded in an Entry or a JSONConfig
MetaOf(e) ==
    [Type |-> e.Type, Name |-> e.Name, Namespace |-> e.Namespace,
     Annotations |-> e.Annotations, ResourceVersion |-> e.ResourceVersion]

\* the empty string ToYAML returns with an error
NoText == [empty |-> TRUE, meta |-> MetaOf(NoEntry), spec |-> JNull]
NoTextResult == [err |-> None, text |-> NoText, schema |-> ZeroSchema, trace |-> <<>>]

\* mutant: a miss of GetByType goes on with the zero Schema it returned
DescriptorToYAML_zeroSchemaOnMiss(d, e) ==
    LET g == GetByType(d, e.Type)
        spec == ToJSONMap(g.schema, e.Spec)
    IN  IF spec.err # ErrNil
        THEN [NoTextResult EXCEPT !.err = spec.err, !.schema = g.schema,
                                  !.trace = <<"GetByType", "ToJSONMap">>]
        ELSE [NoTextResult EXCEPT !.err = ErrNil, !.schema = g.schema,
                                  !.text = [empty |-> FALSE,
                                            meta |-> MetaOf(e),
                                            spec |-> spec.data],
                                  !.trace = <<"GetByType", "ToJSONMap", "yaml.Marshal">>]

\* Descriptor.ToYAML: GetByType, Schema.ToJSONMap, yaml.Marshal of the
\* JSONConfig; the text is kept as the document it denotes
DescriptorToYAML(d, e) ==
    LET g == GetByType(d, e.Type)
        spec == ToJSONMap(g.schema, e.Spec)
    IN  IF ~g.found
        THEN [NoTextResult EXCEPT !.err = ErrMissingType, !.trace = <<"GetByType">>]
        ELSE IF spec.err # ErrNil
        THEN [NoTextResult EXCEPT !.err = spec.err, !.schema = g.schema,
                                  !.trace = <<"GetByType", "ToJSONMap">>]
        ELSE [NoTextResult EXCEPT !.err = ErrNil, !.schema = g.schema,
                                  !.text = [empty |-> FALSE,
                                            meta |-> MetaOf(e),
                                            spec |-> spec.data],
                                  !.trace = <<"GetByType", "ToJSONMap", "yaml.Marshal">>]

(***************************************************************************)
(* Descriptor lookups: Types, GetByType, GetByMessageName                  *)
(***************************************************************************)
MaxSchemas == 3

\* the schemas of TestConfigDescriptor, and one that repeats a Type and a
\* MessageName already taken
SchemaA == [Type |-> <<"a">>, Plural |-> <<>>, MessageName |-> "proxy.A",
            AdditionalValidate |-> "nil"]
SchemaB == [Type |-> <<"b">>, Plural |-> <<>>, MessageName |-> "proxy.B",
            AdditionalValidate |-> "nil"]
SchemaC == [Type |-> <<"c">>, Plural |-> <<>>, MessageName |-> "proxy.C",
            AdditionalValidate |-> "nil"]
SchemaA2 == [Type |-> <<"a">>, Plural |-> <<"a","s">>, MessageName |-> "proxy.B",
             AdditionalValidate |-> "nil"]

SchemaPool == {SchemaA, SchemaB, SchemaC, SchemaA2}

Descriptors == UNION {[1..n -> SchemaPool] : n \in 0..MaxSchemas}

LookupTypes == {<<"a">>, <<"b">>, <<"c">>, <<"b","l","a","h">>, <<>>}
LookupMessageNames == {"proxy.A", "proxy.B", "proxy.C", "blah", ""}

NoLookup == [op |-> None, typ |-> <<>>, message |-> ""]
NotValidated == [err |-> None, trace |-> <<>>]
NotConverted == [err |-> None, data |-> JNull]
NotDecoded == [err |-> None, cause |-> None, msg |-> NilMessage]
NoResult == [types |-> <<>>, schema |-> ZeroSchema, found |-> FALSE]

NoConfig == [NoEntry EXCEPT !.Spec = JNull]
NotMade == [err |-> None, cause |-> ErrNil, msg |-> NilMessage]
NoOutcome ==
    [op |-> None, config |-> NoConfig, parses |-> TRUE, entry |-> NoEntry,
     schema |-> ZeroSchema, data |-> JNull, yml |-> YScalar("plain", ""),
     from |-> NoEntryResult, to |-> NoTextResult, made |-> NotMade]
NoList == [entries |-> <<>>, err |-> ErrNil]
NoView ==
    [op |-> None, pkg |-> "", service |-> "", result |-> EmptyMap, services |-> <<>>]

idleConversion == outcome = NoOutcome
\* seen: the store as each List of the call found it; during: every store
\* state between the start of the call and its return
NoRun ==
    [pc |-> "idle", sc |-> EmptyMap, co |-> <<>>, i |-> 0, jc |-> <<>>,
     seen |-> <<>>, during |-> {}, mutations |-> 0]
idleViews ==
    /\ listed = [classes |-> NoList, plans |-> NoList] /\ view = NoView /\ run = NoRun
idleStore == /\ store = <<>> /\ pc = <<>> /\ req = <<>> /\ resp = <<>>
idleDescriptor == /\ descriptor = <<>> /\ lookup = NoLookup /\ lookupResult = NoResult
idleSchema ==
    /\ schema = ZeroSchema /\ config = NilMessage /\ validateResult = NotValidated
    /\ jsonMap = NotConverted /\ decoded = NotDecoded

InitDescriptor ==
    /\ descriptor \in Descriptors
    /\ lookup = NoLookup
    /\ lookupResult = NoResult
    /\ idleStore
    /\ idleSchema
    /\ idleConversion
    /\ idleViews

CallTypes ==
    /\ lookup' = [NoLookup EXCEPT !.op = "Types"]
    /\ lookupResult' = [NoResult EXCEPT !.types = Types(descriptor)]
    /\ UNCHANGED <<descriptor, storeVars, schemaVars, outcome, viewVars>>

CallGetByType ==
    \E name \in LookupTypes :
        /\ lookup' = [NoLookup EXCEPT !.op = "GetByType", !.typ = name]
        /\ lookupResult' = [NoResult EXCEPT
                               !.schema = GetByType(descriptor, name).schema,
                               !.found = GetByType(descriptor, name).found]
        /\ UNCHANGED <<descriptor, storeVars, schemaVars, outcome, viewVars>>

CallGetByMessageName ==
    \E name \in LookupMessageNames :
        /\ lookup' = [NoLookup EXCEPT !.op = "GetByMessageName", !.message = name]
        /\ lookupResult' = [NoResult EXCEPT
                               !.schema = GetByMessageName(descriptor, name).schema,
                               !.found = GetByMessageName(descriptor, name).found]
        /\ UNCHANGED <<descriptor, storeVars, schemaVars, outcome, viewVars>>

NextDescriptor == CallTypes \/ CallGetByType \/ CallGetByMessageName

SpecDescriptor == InitDescriptor /\ [][NextDescriptor]_vars

(***************************************************************************)
(* Schema.Validate                                                         *)
(***************************************************************************)
\* labels around every edge of the DNS-1123 rule
LabelInputs ==
    {<<"a">>, mockConfigType, <<>>, <<"A">>, <<"-","a">>, <<"a","-">>,
     <<"a","_","b">>, Repeat("a", dns1123LabelMaxLength),
     Repeat("a", dns1123LabelMaxLength + 1)}

PluralInputs == {mockConfigPlural, <<>>, <<"a","-">>, Repeat("a", dns1123LabelMaxLength + 1)}

mockConfigs == {[kind |-> "MockConfig", key |-> k] : k \in {"", "k1", "k2"}}

SchemaInputs ==
    [Type : LabelInputs, Plural : PluralInputs,
     MessageName : {MockConfigMessage, "bad-name"},
     AdditionalValidate : {"nil", "mockValidate", "rejectAll"}]

InitValidate ==
    /\ schema \in SchemaInputs
    /\ config \in mockConfigs
    /\ validateResult = NotValidated
    /\ jsonMap = NotConverted
    /\ decoded = NotDecoded
    /\ idleStore
    /\ idleDescriptor
    /\ idleConversion
    /\ idleViews

CallValidate ==
    /\ validateResult = NotValidated
    /\ validateResult' = Validate(schema, config)
    /\ UNCHANGED <<schema, config, jsonMap, decoded, storeVars, descriptorVars, outcome, viewVars>>

NextValidate == CallValidate

SpecValidate == InitValidate /\ [][NextValidate]_vars

(***************************************************************************)
(* Schema.ToJSONMap and Schema.FromJSONMap on the registered schemas       *)
(***************************************************************************)
MaxServices == 2

\* field values: empty, ordinary, and strings YAML reads as bool, int, null
PayloadStrings == {"", "productpage", "true", "1", "~"}

Deployments ==
    {NilDeployment} \cup [present : {TRUE}, instance : PayloadStrings]
Catalogs ==
    {NilCatalog} \cup [present : {TRUE}, name : PayloadStrings, id : PayloadStrings,
                       description : PayloadStrings]
ServiceLists == UNION {[1..n -> PayloadStrings] : n \in 0..MaxServices}

serviceClasses == [kind : {"ServiceClass"}, deployment : Deployments, entry : Catalogs]
servicePlans == [kind : {"ServicePlan"}, plan : Catalogs, services : ServiceLists]

InitCodec ==
    /\ \/ schema = ServiceClass /\ config \in serviceClasses
       \/ schema = ServicePlan /\ config \in servicePlans
    /\ validateResult = NotValidated
    /\ jsonMap = NotConverted
    /\ decoded = NotDecoded
    /\ idleStore
    /\ idleDescriptor
    /\ idleConversion
    /\ idleViews

CallToJSONMap ==
    /\ jsonMap = NotConverted
    /\ jsonMap' = ToJSONMap(schema, config)
    /\ UNCHANGED <<schema, config, validateResult, decoded, storeVars, descriptorVars, outcome, viewVars>>

CallFromJSONMap ==
    /\ jsonMap.err = ErrNil
    /\ decoded = NotDecoded
    /\ decoded' = FromJSONMap(schema, jsonMap.data)
    /\ UNCHANGED <<schema, config, validateResult, jsonMap, storeVars, descriptorVars, outcome, viewVars>>

NextCodec == CallToJSONMap \/ CallFromJSONMap

SpecCodec == InitCodec /\ [][NextCodec]_vars

\* C7: ToJSONMap succeeds on every instance of a registered schema's message
\* type, and FromJSONMap of its result succeeds with an equal instance.
C7_RoundTrip ==
    /\ jsonMap.err # None => jsonMap.err = ErrNil
    /\ decoded.err # None => (decoded.err = ErrNil /\ decoded.msg = config)

\* a class with an empty deployment and an entry whose name reads as a YAML bool
C7_Witness ==
    /\ decoded.err = ErrNil
    /\ config.kind = "ServiceClass"
    /\ config.deployment = [present |-> TRUE, instance |-> ""]
    /\ config.entry.present
    /\ config.entry.name = "true"
    /\ config.entry.id = "~"

(***************************************************************************)
(* Claims on the Descriptor and on Schema.Validate                         *)
(***************************************************************************)
IsPrefix(s, t) == Len(s) <= Len(t) /\ \A i \in 1..Len(s) : s[i] = t[i]

ValidateOrder == <<"Type", "Plural", "MessageName", "AdditionalValidate">>

InTrace(step, trace) == \E i \in 1..Len(trace) : trace[i] = step

StructuralError(ps) ==
    IF ~isDNS1123Label(ps.Type) THEN ErrInvalidType
    ELSE IF ~isDNS1123Label(ps.Plural) THEN ErrInvalidPlural
    ELSE IF ~MessageType(ps.MessageName) THEN ErrNoMessageType
    ELSE ErrNil

\* C8: Validate checks Type, then Plural, then MessageName, and reaches
\* AdditionalValidate only when all three pass; on an invalid Type, Plural or
\* MessageName it returns that structural error and AdditionalValidate is
\* invoked zero times.
C8_ValidationOrder ==
    validateResult.err # None =>
        /\ IsPrefix(validateResult.trace, ValidateOrder)
        /\ InTrace("AdditionalValidate", validateResult.trace)
              => StructuralError(schema) = ErrNil
        /\ StructuralError(schema) # ErrNil =>
              /\ validateResult.err = StructuralError(schema)
              /\ ~InTrace("AdditionalValidate", validateResult.trace)

\* an invalid Plural with a validator that would have rejected the message
C8_Witness ==
    /\ validateResult.err # None
    /\ isDNS1123Label(schema.Type)
    /\ ~isDNS1123Label(schema.Plural)
    /\ schema.AdditionalValidate = "rejectAll"
    /\ validateResult.err = ErrInvalidPlural

\* C9: a lookup by a Type (MessageName) that no registered Schema carries
\* returns the zero Schema and found = FALSE.
C9_NegativeLookup ==
    /\ (lookup.op = "GetByType"
        /\ \A i \in 1..Len(descriptor) : descriptor[i].Type # lookup.typ)
          => (lookupResult.schema = ZeroSchema /\ lookupResult.found = FALSE)
    /\ (lookup.op = "GetByMessageName"
        /\ \A i \in 1..Len(descriptor) : descriptor[i].MessageName # lookup.message)
          => (lookupResult.schema = ZeroSchema /\ lookupResult.found = FALSE)

\* a miss on a Descriptor that holds schemas
C9_Witness ==
    /\ lookup.op = "GetByType"
    /\ Len(descriptor) = MaxSchemas
    /\ lookup.typ = <<"b","l","a","h">>
    /\ lookupResult.found = FALSE

UniqueAt(d, i) ==
    \A j \in 1..Len(d) : j # i => (d[j].Type # d[i].Type /\ d[j].MessageName # d[i].MessageName)

\* C10: Types() lists the Type of every Schema in registration order, as many
\* as the Descriptor holds; a Schema whose Type and MessageName are unique in
\* the Descriptor is what GetByType and GetByMessageName return, found = TRUE.
C10_DescriptorLookup ==
    /\ lookup.op = "Types" =>
          /\ Len(lookupResult.types) = Len(descriptor)
          /\ \A i \in 1..Len(descriptor) : lookupResult.types[i] = descriptor[i].Type
    /\ \A i \in 1..Len(descriptor) :
          UniqueAt(descriptor, i) =>
              /\ (lookup.op = "GetByType" /\ lookup.typ = descriptor[i].Type)
                    => (lookupResult.schema = descriptor[i] /\ lookupResult.found)
              /\ (lookup.op = "GetByMessageName" /\ lookup.message = descriptor[i].MessageName)
                    => (lookupResult.schema = descriptor[i] /\ lookupResult.found)

\* the lookup of TestConfigDescriptor: GetByType("a") on <<a, b, c>>
C10_Witness ==
    /\ descriptor = <<SchemaA, SchemaB, SchemaC>>
    /\ lookup.op = "GetByType"
    /\ lookup.typ = <<"a">>
    /\ lookupResult.schema = SchemaA
    /\ lookupResult.found

(***************************************************************************)
(* Descriptor.FromJSON / FromYAML / ToYAML and Schema.Make / FromJSON /    *)
(* FromYAML / FromJSONMap, called once on bounded inputs                   *)
(***************************************************************************)
MaxConversionSchemas == 2

strictType == <<"s","t","r","i","c","t">>
laxType == <<"l","a","x">>
badType == <<"b","a","d">>

\* a Schema whose MessageName is linked nowhere (badSchema of the tests)
MockUnresolvable == [MockConfig EXCEPT !.Type = badType, !.MessageName = "bad-name"]
\* a Schema whose validator rejects every message
MockRejecting == [MockConfig EXCEPT !.Type = strictType, !.AdditionalValidate = "rejectAll"]
\* a Schema that fails the structural checks
MockBadPlural == [MockConfig EXCEPT !.Type = laxType, !.Plural = <<"M">>]

ConversionSchemas == {ServiceClass, MockConfig, MockUnresolvable, MockRejecting, MockBadPlural}
ConversionDescriptors ==
    UNION {[1..n -> ConversionSchemas] : n \in 0..MaxConversionSchemas}

ConversionTypes ==
    {serviceClassType, mockConfigType, badType, strictType, laxType, widgetType}

\* spec: values a JSONConfig may carry
SpecTrees ==
    {JNull, JObj(EmptyMap), JStr("x"),
     JObj([k \in {"key"} |-> JStr("k1")]),
     JObj([k \in {"key"} |-> JStr("")]),
     JObj([k \in {"bogus"} |-> JStr("x")]),
     JObj([k \in {"entry"} |-> JObj([n \in {"name"} |-> JStr("svc-a")])])}

JSONConfigs ==
    [Type : ConversionTypes, Name : {<<"a">>}, Namespace : {<<>>},
     Annotations : {"", "note"}, ResourceVersion : {"", "r1"}, Spec : SpecTrees]

ConversionEntries ==
    [Type : ConversionTypes, Name : {<<"a">>}, Namespace : {<<>>},
     Annotations : {"", "note"}, ResourceVersion : {"", "r1"},
     Spec : {NilMessage, ZeroMockConfig, [kind |-> "MockConfig", key |-> "k1"],
             [ZeroServiceClass EXCEPT !.entry = [present |-> TRUE, name |-> "svc-a",
                                                 id |-> "", description |-> ""]]}]

InitConversion ==
    /\ descriptor \in ConversionDescriptors
    /\ lookup = NoLookup
    /\ lookupResult = NoResult
    /\ outcome = NoOutcome
    /\ idleStore
    /\ idleSchema
    /\ idleViews

Converted(o) ==
    /\ outcome = NoOutcome
    /\ outcome' = o
    /\ UNCHANGED <<descriptorVars, storeVars, schemaVars, viewVars>>

CallDescriptorFromJSON ==
    \E cfg \in JSONConfigs :
        Converted([NoOutcome EXCEPT !.op = "Descriptor.FromJSON", !.config = cfg,
                                    !.from = DescriptorFromJSON(descriptor, cfg)])

CallDescriptorFromYAML ==
    \E cfg \in JSONConfigs, parses \in BOOLEAN :
        Converted([NoOutcome EXCEPT
                      !.op = "Descriptor.FromYAML", !.config = cfg, !.parses = parses,
                      !.from = DescriptorFromYAML(descriptor,
                                                  [parses |-> parses, config |-> cfg])])

CallDescriptorToYAML ==
    \E e \in ConversionEntries :
        Converted([NoOutcome EXCEPT !.op = "Descriptor.ToYAML", !.entry = e,
                                    !.to = DescriptorToYAML(descriptor, e)])

CallMake ==
    \E ps \in ConversionSchemas :
        Converted([NoOutcome EXCEPT !.op = "Schema.Make", !.schema = ps,
                                    !.made = [NotMade EXCEPT !.err = Make(ps).err,
                                                             !.msg = Make(ps).msg]])

CallFromJSON ==
    \E ps \in ConversionSchemas, js \in SpecTrees :
        Converted([NoOutcome EXCEPT !.op = "Schema.FromJSON", !.schema = ps, !.data = js,
                                    !.made = [NotMade EXCEPT !.err = FromJSON(ps, js).err,
                                                             !.msg = FromJSON(ps, js).msg]])

CallFromYAML ==
    \E ps \in ConversionSchemas, yml \in {yamlMarshal(t) : t \in SpecTrees} :
        Converted([NoOutcome EXCEPT !.op = "Schema.FromYAML", !.schema = ps, !.yml = yml,
                                    !.made = [NotMade EXCEPT !.err = FromYAML(ps, yml).err,
                                                             !.msg = FromYAML(ps, yml).msg]])

CallSchemaFromJSONMap ==
    \E ps \in ConversionSchemas, data \in SpecTrees :
        Converted([NoOutcome EXCEPT !.op = "Schema.FromJSONMap", !.schema = ps,
                                    !.data = data, !.made = FromJSONMap(ps, data)])

NextConversion ==
    \/ CallDescriptorFromJSON
    \/ CallDescriptorFromYAML
    \/ CallDescriptorToYAML
    \/ CallMake
    \/ CallFromJSON
    \/ CallFromYAML
    \/ CallSchemaFromJSONMap

SpecConversion == InitConversion /\ [][NextConversion]_vars

Registered(d, typ) == \E i \in 1..Len(d) : d[i].Type = typ

\* the Schema a Descriptor holds for a type: the first one in its order
FirstOfType(d, typ) ==
    d[CHOOSE i \in 1..Len(d) : d[i].Type = typ /\ \A j \in 1..(i - 1) : d[j].Type # typ]

Called(r, step) == \E i \in 1..Len(r.trace) : r.trace[i] = step

\* C11: Descriptor.FromJSON and Descriptor.FromYAML, given a config whose
\* type no Schema of the Descriptor has, fail with the unknown-type error and
\* return a nil Entry, and neither decode nor validate the spec.
C11_UnknownTypeRejection ==
    (/\ outcome.op \in {"Descriptor.FromJSON", "Descriptor.FromYAML"}
     /\ outcome.parses
     /\ ~Registered(descriptor, outcome.config.Type))
    => /\ outcome.from.err = ErrUnknownSpecType
       /\ ~outcome.from.returned
       /\ outcome.from.entry = NoEntry
       /\ ~Called(outcome.from, "FromJSONMap")
       /\ ~Called(outcome.from, "Validate")

C11_Witness ==
    /\ outcome.op = "Descriptor.FromYAML"
    /\ outcome.parses
    /\ descriptor = <<ServiceClass, MockConfig>>
    /\ outcome.config.Type = widgetType
    /\ outcome.config.Spec = JObj([k \in {"key"} |-> JStr("k1")])
    /\ outcome.from.err = ErrUnknownSpecType

FromJSONSteps == <<"GetByType", "FromJSONMap", "Validate">>

\* C16: Descriptor.FromJSON resolves the Schema by the config's type, decodes
\* the spec with Schema.FromJSONMap and checks the message with
\* Schema.Validate, in that order. It returns an Entry only when all three
\* succeed, and the Entry then carries the metadata of the input unchanged
\* and the decoded message; on any failure it returns an error and a nil Entry.
C16_FailClosedPipeline ==
    outcome.op = "Descriptor.FromJSON"
    => LET r == outcome.from
           cfg == outcome.config
           ps == FirstOfType(descriptor, cfg.Type)
       IN  /\ r.trace # <<>>
           /\ IsPrefix(r.trace, FromJSONSteps)
           /\ r.returned <=> r.err = ErrNil
           /\ r.returned =>
                /\ r.trace = FromJSONSteps
                /\ Registered(descriptor, cfg.Type)
                /\ FromJSONMap(ps, cfg.Spec).err = ErrNil
                /\ Validate(ps, FromJSONMap(ps, cfg.Spec).msg).err = ErrNil
                /\ MetaOf(r.entry) = MetaOf(cfg)
                /\ r.entry.Spec = FromJSONMap(ps, cfg.Spec).msg
           /\ ~r.returned =>
                /\ r.err \notin {ErrNil, None}
                /\ r.entry = NoEntry
                /\ \/ ~Registered(descriptor, cfg.Type)
                   \/ FromJSONMap(ps, cfg.Spec).err # ErrNil
                   \/ Validate(ps, FromJSONMap(ps, cfg.Spec).msg).err # ErrNil

C16_Witness ==
    /\ outcome.op = "Descriptor.FromJSON"
    /\ descriptor = <<MockRejecting, MockConfig>>
    /\ outcome.config.Type = mockConfigType
    /\ outcome.config.ResourceVersion = "r1"
    /\ outcome.config.Annotations = "note"
    /\ outcome.from.returned
    /\ outcome.from.entry.Spec = [kind |-> "MockConfig", key |-> "k1"]
    /\ outcome.from.entry.ResourceVersion = "r1"

\* C17: for a Schema whose MessageName names no linked message type, Make
\* fails with the unknown-type error and returns no instance; FromJSON,
\* FromYAML and FromJSONMap of that Schema fail and return a nil message for
\* every input.
C17_UnresolvableMessage ==
    (/\ outcome.op \in {"Schema.Make", "Schema.FromJSON", "Schema.FromYAML",
                        "Schema.FromJSONMap"}
     /\ ~MessageType(outcome.schema.MessageName))
    => /\ outcome.made.err \notin {ErrNil, None}
       /\ outcome.made.msg = NilMessage
       /\ outcome.op = "Schema.Make" => outcome.made.err = ErrUnknownType
       /\ outcome.op \in {"Schema.FromJSON", "Schema.FromYAML"}
            => outcome.made.err = ErrUnknownType
       /\ outcome.op = "Schema.FromJSONMap" => outcome.made.cause = ErrUnknownType

C17_Witness ==
    /\ outcome.op = "Schema.FromJSONMap"
    /\ outcome.schema = MockUnresolvable
    /\ outcome.data = JObj([k \in {"key"} |-> JStr("k1")])
    /\ outcome.made.err # ErrNil
    /\ outcome.made.msg = NilMessage

StructurallyValid(ps) ==
    /\ isDNS1123Label(ps.Type)
    /\ isDNS1123Label(ps.Plural)
    /\ MessageType(ps.MessageName)

\* what the validator of a Schema answers for a message (nil without one)
Verdict(ps, msg) ==
    IF ps.AdditionalValidate = "nil" THEN ErrNil
    ELSE AdditionalValidate(ps.AdditionalValidate, msg)

\* C18: when the structural checks of a Schema pass and its AdditionalValidate
\* returns an error e, Schema.Validate returns exactly e and Descriptor.FromJSON
\* returns exactly e too, unwrapped; when AdditionalValidate is nil or returns
\* nil, Validate returns nil.
C18_ValidationPassThrough ==
    (/\ outcome.op = "Descriptor.FromJSON"
     /\ Called(outcome.from, "Validate")
     /\ StructurallyValid(outcome.from.schema))
    => LET r == outcome.from
           e == Verdict(r.schema, r.message)
       IN  /\ r.validated = e
           /\ Validate(r.schema, r.message).err = e
           /\ e # ErrNil => /\ r.err = e
                            /\ r.cause = ErrNil
                            /\ ~r.returned

C18_Witness ==
    /\ outcome.op = "Descriptor.FromJSON"
    /\ outcome.from.schema = MockConfig
    /\ outcome.from.message = ZeroMockConfig
    /\ outcome.from.validated = ErrEmptyKey
    /\ outcome.from.err = ErrEmptyKey

\* C19: Descriptor.ToYAML of an Entry whose Type is not registered fails with
\* the missing-type error and returns the empty text; for a registered Type
\* the payload is encoded through Schema.ToJSONMap only, and an encoding error
\* is returned with the empty text.
C19_ToYAMLMissingType ==
    outcome.op = "Descriptor.ToYAML"
    => LET r == outcome.to
           e == outcome.entry
           ps == FirstOfType(descriptor, e.Type)
       IN  /\ ~Registered(descriptor, e.Type) =>
                /\ r.err = ErrMissingType
                /\ r.text = NoText
                /\ r.trace = <<"GetByType">>
           /\ Registered(descriptor, e.Type) =>
                /\ r.schema = ps
                /\ Called(r, "ToJSONMap")
                /\ ToJSONMap(ps, e.Spec).err # ErrNil =>
                     /\ r.err = ToJSONMap(ps, e.Spec).err
                     /\ r.text = NoText
                /\ ToJSONMap(ps, e.Spec).err = ErrNil =>
                     /\ r.err = ErrNil
                     /\ ~r.text.empty
                     /\ r.text.meta = MetaOf(e)
                     /\ r.text.spec = ToJSONMap(ps, e.Spec).data

C19_Witness ==
    /\ outcome.op = "Descriptor.ToYAML"
    /\ descriptor = <<ServiceClass, MockConfig>>
    /\ outcome.entry.Type = widgetType
    /\ outcome.entry.Spec = [kind |-> "MockConfig", key |-> "k1"]
    /\ outcome.to.err = ErrMissingType
    /\ outcome.to.text.empty

(***************************************************************************)
(* Broker views (brokerConfigStore) over Store.List, and Controller.catalog*)
(* The store is a mock: List answers what `listed` holds for the type,     *)
(* entries and error both. A view is a map from Entry.Key to the payload.  *)
(***************************************************************************)
MaxListed == 2

\* Key: "%s/%s/%s" of typ, namespace, name
Key(typ, name, namespace) == typ \o <<"/">> \o namespace \o <<"/">> \o name

\* Entry.Key
KeyOf(entry) == Key(entry.Type, entry.Name, entry.Namespace)

\* Store.List of the mock store
List(st, typ, namespace) ==
    IF typ = serviceClassType THEN st.classes
    ELSE IF typ = servicePlanType THEN st.plans
    ELSE NoList

\* out[k] = v
Put(out, k, v) == [x \in DOMAIN out \cup {k} |-> IF x = k THEN v ELSE out[x]]

\* mutant: the loop ends at the first payload of another type
RECURSIVE narrow_stopAtMismatch(_, _, _, _)
narrow_stopAtMismatch(rs, kind, i, out) ==
    IF i > Len(rs) THEN out
    ELSE IF rs[i].Spec.kind = kind
    THEN narrow_stopAtMismatch(rs, kind, i + 1, Put(out, KeyOf(rs[i]), rs[i].Spec))
    ELSE out

\* for _, r := range rs { if c, ok := r.Spec.(*T); ok { out[r.Key()] = c } }
RECURSIVE narrow(_, _, _, _)
narrow(rs, kind, i, out) ==
    IF i > Len(rs) THEN out
    ELSE IF rs[i].Spec.kind = kind
    THEN narrow(rs, kind, i + 1, Put(out, KeyOf(rs[i]), rs[i].Spec))
    ELSE narrow(rs, kind, i + 1, out)

\* config.brokerConfigStore.ServiceClasses (store.go)
ServiceClasses(st) ==
    LET l == List(st, ServiceClass.Type, <<>>) IN
    IF l.err # ErrNil THEN EmptyMap
    ELSE narrow(l.entries, "ServiceClass", 1, EmptyMap)

\* config.brokerConfigStore.ServicePlans (store.go)
ServicePlans(st) ==
    LET l == List(st, ServicePlan.Type, <<>>) IN
    IF l.err # ErrNil THEN EmptyMap
    ELSE narrow(l.entries, "ServicePlan", 1, EmptyMap)

\* model.brokerConfigStore.ServiceClasses (config.go): the error is logged
\* and the entries are ranged over all the same
modelServiceClasses(st) ==
    narrow(List(st, ServiceClass.Type, <<>>).entries, "ServiceClass", 1, EmptyMap)

\* model.brokerConfigStore.ServicePlans (config.go)
modelServicePlans(st) ==
    narrow(List(st, ServicePlan.Type, <<>>).entries, "ServicePlan", 1, EmptyMap)

\* for _, s := range v.GetServices() { if s == service { ...; break } }
Lists(v, service) == \E i \in 1..Len(v.services) : v.services[i] = service

\* mutant: only the first service of a plan is compared
ServicePlansByService_firstOnly(st, service) ==
    LET rs == ServicePlans(st) IN
    [k \in {x \in DOMAIN rs : rs[x].services # <<>> /\ rs[x].services[1] = service}
        |-> rs[k]]

\* config.brokerConfigStore.ServicePlansByService (store.go)
ServicePlansByService(st, service) ==
    LET rs == ServicePlans(st) IN
    [k \in {x \in DOMAIN rs : Lists(rs[x], service)} |-> rs[k]]

\* osb.NewService: the catalog service of a ServiceClass, named by the
\* class's catalog entry, with no plans yet
NewService(s) ==
    [name |-> s.entry.name, id |-> s.entry.id, description |-> s.entry.description,
     plans |-> <<>>]

\* osb.NewServicePlan: the catalog plan of a ServicePlan
NewServicePlan(p) ==
    [name |-> p.plan.name, id |-> p.plan.id, description |-> p.plan.description]

\* Service.AddPlan
AddPlan(js, jp) == [js EXCEPT !.plans = Append(@, jp)]

\* mutant: a service without plans is left out of the catalog
AddService_nonEmpty(jc, js) == IF js.plans = <<>> THEN jc ELSE Append(jc, js)

\* Catalog.AddService
AddService(jc, js) == Append(jc, js)

\* the orders in which a range over a map with key set S may visit it
Orders(S) ==
    {f \in [1..Cardinality(S) -> S] : \A i, j \in 1..Cardinality(S) : f[i] = f[j] => i = j}

\* mutant: the plans are looked up by the id of the service
PlansOf_byId(st, js) == ServicePlansByService(st, js.id)

\* c.ServicePlansByService(js.Name)
PlansOf(st, js) == ServicePlansByService(st, js.name)

\* the inner loop of catalog(): the plans of js, attached in the order po
RECURSIVE attach(_, _, _, _)
attach(js, plans, po, i) ==
    IF i > Len(po) THEN js
    ELSE attach(AddPlan(js, NewServicePlan(plans[po[i]])), plans, po, i + 1)

\* Controller.catalog(): the outer loop visits the classes in the order co,
\* the inner loop the plans of the class with key k in the order po[k]
RECURSIVE catalog(_, _, _, _, _)
catalog(st, co, po, i, jc) ==
    IF i > Len(co) THEN jc
    ELSE LET js == NewService(ServiceClasses(st)[co[i]])
         IN  catalog(st, co, po, i + 1,
                     AddService(jc, attach(js, PlansOf(st, js), po[co[i]], 1)))

\* the iteration orders catalog() may meet over this store
PlanOrders(st) ==
    LET sc == ServiceClasses(st)
        all == UNION {Orders(S) : S \in SUBSET (DOMAIN ServicePlans(st))}
    IN  {po \in [DOMAIN sc -> all] :
            \A k \in DOMAIN sc : po[k] \in Orders(DOMAIN PlansOf(st, NewService(sc[k])))}

(***************************************************************************)
(* The views and the catalog, called once over a mock store                *)
(***************************************************************************)
CatalogA == [present |-> TRUE, name |-> "svc-a", id |-> "id-a", description |-> ""]
CatalogB == [present |-> TRUE, name |-> "svc-b", id |-> "id-b", description |-> ""]
ClassA == [ZeroServiceClass EXCEPT !.entry = CatalogA]
ClassB == [ZeroServiceClass EXCEPT !.entry = CatalogB]
PlanOf(n, services) ==
    [kind |-> "ServicePlan",
     plan |-> [present |-> TRUE, name |-> n, id |-> "", description |-> ""],
     services |-> services]
PlanA == PlanOf("plan-a", <<"svc-a">>)
PlanB == PlanOf("plan-b", <<"svc-b">>)
PlanAB == PlanOf("plan-ab", <<"svc-a", "svc-b">>)

Listed(typ, name, spec) == [NoEntry EXCEPT !.Type = typ, !.Name = name, !.Spec = spec]

\* two objects whose Name and Namespace differ and hold a "/"
SlashedName == [Listed(serviceClassType, <<"b", "/", "c">>, ClassA) EXCEPT !.Namespace = <<"a">>]
SlashedNamespace ==
    [Listed(serviceClassType, <<"c">>, ClassB) EXCEPT !.Namespace = <<"a", "/", "b">>]

\* what the mock may list as service classes: two classes, a class under a
\* key other than its name, an entry whose payload is a plan, and the two
\* objects with a "/" in their Name or Namespace
ClassEntries ==
    {Listed(serviceClassType, <<"a">>, ClassA), Listed(serviceClassType, <<"b">>, ClassB),
     Listed(serviceClassType, <<"b">>, ClassA), Listed(serviceClassType, <<"a">>, PlanAB),
     SlashedName, SlashedNamespace}

PlanEntries ==
    {Listed(servicePlanType, <<"a">>, PlanA), Listed(servicePlanType, <<"b">>, PlanB),
     Listed(servicePlanType, <<"b">>, PlanAB), Listed(servicePlanType, <<"a">>, ClassA)}

ErrListFailed == "list failed"

Listings(pool) ==
    [entries : UNION {[1..n -> pool] : n \in 0..MaxListed}, err : {ErrNil, ErrListFailed}]

ServiceNames == {"svc-a", "svc-b", "svc-c"}

InitViews ==
    /\ listed \in [classes : Listings(ClassEntries), plans : Listings(PlanEntries)]
    /\ view = NoView
    /\ run = NoRun
    /\ idleStore
    /\ idleDescriptor
    /\ idleSchema
    /\ idleConversion

Viewed(v) ==
    /\ view = NoView
    /\ view' = v
    /\ UNCHANGED <<listed, run, outcome, storeVars, descriptorVars, schemaVars>>

CallServiceClasses ==
    Viewed([NoView EXCEPT !.op = "ServiceClasses", !.pkg = "config",
                          !.result = ServiceClasses(listed)])

CallServicePlans ==
    Viewed([NoView EXCEPT !.op = "ServicePlans", !.pkg = "config",
                          !.result = ServicePlans(listed)])

CallServicePlansByService ==
    \E service \in ServiceNames :
        Viewed([NoView EXCEPT !.op = "ServicePlansByService", !.pkg = "config",
                              !.service = service,
                              !.result = ServicePlansByService(listed, service)])

CallModelServiceClasses ==
    Viewed([NoView EXCEPT !.op = "ServiceClasses", !.pkg = "model",
                          !.result = modelServiceClasses(listed)])

CallModelServicePlans ==
    Viewed([NoView EXCEPT !.op = "ServicePlans", !.pkg = "model",
                          !.result = modelServicePlans(listed)])

CallCatalog ==
    \E co \in Orders(DOMAIN ServiceClasses(listed)), po \in PlanOrders(listed) :
        Viewed([NoView EXCEPT !.op = "catalog", !.pkg = "controller",
                              !.services = catalog(listed, co, po, 1, <<>>)])

NextViews ==
    \/ CallServiceClasses
    \/ CallServicePlans
    \/ CallServicePlansByService
    \/ CallModelServiceClasses
    \/ CallModelServicePlans
    \/ CallCatalog

SpecViews == InitViews /\ [][NextViews]_vars

\* the List answer a view is computed from
Answer(v) ==
    IF v.op = "ServiceClasses" THEN listed.classes ELSE listed.plans

\* C12: whenever Store.List returns an error, ServiceClasses(), ServicePlans()
\* and ServicePlansByService() return an empty map, also when List returned
\* entries next to the error; the error is not propagated.
C12_ListErrorAbsorption ==
    (/\ view.op \in {"ServiceClasses", "ServicePlans", "ServicePlansByService"}
     /\ Answer(view).err # ErrNil)
    => view.result = EmptyMap

\* C13: ServicePlansByService(service) returns exactly the entries of
\* ServicePlans(), same keys and same values, whose services list holds the
\* name at any position; a plan listing several services is returned for
\* each of them, a plan that lacks the name never.
C13_PlansByServiceFilter ==
    view.op = "ServicePlansByService"
    => LET all == ServicePlans(listed) IN
       /\ DOMAIN view.result \subseteq DOMAIN all
       /\ \A k \in DOMAIN all :
            /\ k \in DOMAIN view.result
                 <=> \E i \in 1..Len(all[k].services) : all[k].services[i] = view.service
            /\ k \in DOMAIN view.result => view.result[k] = all[k]

C13_Witness ==
    /\ view.op = "ServicePlansByService"
    /\ view.service = "svc-b"
    /\ listed.plans.err = ErrNil
    /\ listed.plans.entries = <<Listed(servicePlanType, <<"a">>, PlanA),
                                Listed(servicePlanType, <<"b">>, PlanAB)>>
    /\ DOMAIN view.result = {Key(servicePlanType, <<"b">>, <<>>)}

\* how many positions of a sequence hold x
Count(seq, x) == Cardinality({i \in 1..Len(seq) : seq[i] = x})

\* C14: in the catalog, the plans attached to a service are exactly the
\* wrapped plans of ServicePlans() whose services list holds the name of the
\* catalog service (the name of the wrapped class, not its store key): with
\* one class svc-a and two plans, for svc-a and for svc-b, the catalog has one
\* service with exactly one plan.
C14_CatalogPlanAttachment ==
    view.op = "catalog"
    => LET all == ServicePlans(listed) IN
       \A n \in 1..Len(view.services) :
           LET js == view.services[n]
               due == {k \in DOMAIN all :
                          \E i \in 1..Len(all[k].services) : all[k].services[i] = js.name}
           IN  /\ Len(js.plans) = Cardinality(due)
               /\ \A k \in due :
                    Count(js.plans, NewServicePlan(all[k]))
                      = Cardinality({x \in due : NewServicePlan(all[x]) = NewServicePlan(all[k])})

C14_Witness ==
    /\ view.op = "catalog"
    /\ listed.classes = [entries |-> <<Listed(serviceClassType, <<"b">>, ClassA)>>,
                         err |-> ErrNil]
    /\ listed.plans = [entries |-> <<Listed(servicePlanType, <<"a">>, PlanA),
                                     Listed(servicePlanType, <<"b">>, PlanB)>>,
                       err |-> ErrNil]
    /\ Len(view.services) = 1
    /\ view.services[1].name = "svc-a"
    /\ view.services[1].plans = <<NewServicePlan(PlanA)>>

\* a catalog service without its plans
Bare(js) == [js EXCEPT !.plans = <<>>]

\* C15: the catalog holds exactly one service for every entry of
\* ServiceClasses() and no other, classes without a matching plan included
\* (they appear with no plans), whatever the order of iteration.
C15_CatalogServiceCoverage ==
    view.op = "catalog"
    => LET sc == ServiceClasses(listed)
           heads == [n \in 1..Len(view.services) |-> Bare(view.services[n])]
       IN  /\ Len(view.services) = Cardinality(DOMAIN sc)
           /\ \A n \in 1..Len(heads) : \E k \in DOMAIN sc : heads[n] = NewService(sc[k])
           /\ \A k \in DOMAIN sc :
                Count(heads, NewService(sc[k]))
                  = Cardinality({x \in DOMAIN sc : NewService(sc[x]) = NewService(sc[k])})

C15_Witness ==
    /\ view.op = "catalog"
    /\ listed.classes = [entries |-> <<Listed(serviceClassType, <<"a">>, ClassA),
                                       Listed(serviceClassType, <<"b">>, ClassB)>>,
                         err |-> ErrNil]
    /\ listed.plans = [entries |-> <<Listed(servicePlanType, <<"a">>, PlanA)>>,
                       err |-> ErrNil]
    /\ Len(view.services) = 2
    /\ view.services[1].name = "svc-b"
    /\ view.services[1].plans = <<>>
    /\ view.services[2].plans = <<NewServicePlan(PlanA)>>

\* the payload kind a view narrows to
KindOf(v) == IF v.op = "ServiceClasses" THEN "ServiceClass" ELSE "ServicePlan"

\* C20: ServiceClasses() (ServicePlans()) holds an item for a listed entry
\* only if the payload of the entry is a ServiceClass (ServicePlan); entries
\* with another payload are dropped without an error and do not keep the
\* well-typed entries listed with them from being returned.
C20_TypeFiltering ==
    view.op \in {"ServiceClasses", "ServicePlans"}
    => LET rs == Answer(view).entries
           typed == {i \in 1..Len(rs) : rs[i].Spec.kind = KindOf(view)}
       IN  /\ \A k \in DOMAIN view.result :
                /\ view.result[k].kind = KindOf(view)
                /\ \E i \in typed : KeyOf(rs[i]) = k /\ rs[i].Spec = view.result[k]
           /\ (Answer(view).err = ErrNil \/ view.pkg = "model")
                => \A i \in typed : KeyOf(rs[i]) \in DOMAIN view.result

C20_Witness ==
    /\ view.op = "ServiceClasses"
    /\ view.pkg = "config"
    /\ listed.classes = [entries |-> <<Listed(serviceClassType, <<"a">>, PlanAB),
                                       Listed(serviceClassType, <<"b">>, ClassB)>>,
                         err |-> ErrNil]
    /\ DOMAIN view.result = {Key(serviceClassType, <<"b">>, <<>>)}

(***************************************************************************)
(* The views and catalog() of one reader beside one writer of the store.   *)
(* The reader makes one call at a time; a view is one List, catalog() is a *)
(* List of the classes and then one List of the plans per class, and the   *)
(* writer's Create / Update / Delete may take effect between any two.      *)
(***************************************************************************)
MaxMutations == 2

\* the objects the writer creates, updates and deletes
CatalogEntries ==
    {Listed(serviceClassType, <<"a">>, ClassA), Listed(serviceClassType, <<"b">>, ClassB),
     Listed(servicePlanType, <<"a">>, PlanA), Listed(servicePlanType, <<"a">>, PlanAB),
     Listed(servicePlanType, <<"b">>, PlanB)}

Stored(entries) == [entries |-> entries, err |-> ErrNil]

InitialStores ==
    [classes : {Stored(<<>>),
                Stored(<<Listed(serviceClassType, <<"a">>, ClassA)>>),
                Stored(<<Listed(serviceClassType, <<"a">>, ClassA),
                         Listed(serviceClassType, <<"b">>, ClassB)>>)},
     plans : {Stored(<<>>),
              Stored(<<Listed(servicePlanType, <<"a">>, PlanAB)>>),
              Stored(<<Listed(servicePlanType, <<"a">>, PlanA),
                       Listed(servicePlanType, <<"b">>, PlanB)>>)}]

InitCatalog ==
    /\ listed \in InitialStores
    /\ view = NoView
    /\ run = NoRun
    /\ idleStore
    /\ idleDescriptor
    /\ idleSchema
    /\ idleConversion

\* the entries of the store that hold the type of e
Shelf(st, e) == IF e.Type = serviceClassType THEN st.classes.entries ELSE st.plans.entries

WithShelf(st, e, entries) ==
    IF e.Type = serviceClassType THEN [st EXCEPT !.classes.entries = entries]
    ELSE [st EXCEPT !.plans.entries = entries]

SameObject(x, e) == x.Type = e.Type /\ x.Name = e.Name /\ x.Namespace = e.Namespace

Holds(st, e) == \E i \in 1..Len(Shelf(st, e)) : SameObject(Shelf(st, e)[i], e)

\* the writer's call took effect: the store is st from now on
Written(st) ==
    /\ run.mutations < MaxMutations
    /\ listed' = st
    /\ run' = [run EXCEPT !.mutations = @ + 1,
                          !.during = IF run.pc = "plans" THEN @ \cup {st} ELSE @]
    /\ UNCHANGED <<view, outcome, storeVars, descriptorVars, schemaVars>>

\* Store.Create of an object that is Absent
WriterCreate ==
    \E e \in CatalogEntries :
        /\ ~Holds(listed, e)
        /\ Written(WithShelf(listed, e, Append(Shelf(listed, e), e)))

\* Store.Update of an object that is Present
WriterUpdate ==
    \E e \in CatalogEntries :
        /\ Holds(listed, e)
        /\ e \notin {Shelf(listed, e)[i] : i \in 1..Len(Shelf(listed, e))}
        /\ Written(WithShelf(listed, e,
                             [i \in 1..Len(Shelf(listed, e)) |->
                                 IF SameObject(Shelf(listed, e)[i], e) THEN e
                                 ELSE Shelf(listed, e)[i]]))

\* Store.Delete of an object that is Present
WriterDelete ==
    \E e \in CatalogEntries :
        /\ Holds(listed, e)
        /\ Written(WithShelf(listed, e,
                             SelectSeq(Shelf(listed, e), LAMBDA x : ~SameObject(x, e))))

\* the reader is between two calls
Free == run.pc \in {"idle", "done"}

\* a view call of the reader
Read(v) ==
    /\ Free
    /\ view' = v
    /\ UNCHANGED <<listed, run, outcome, storeVars, descriptorVars, schemaVars>>

ReadServiceClasses ==
    Read([NoView EXCEPT !.op = "ServiceClasses", !.pkg = "config",
                        !.result = ServiceClasses(listed)])

ReadServicePlans ==
    Read([NoView EXCEPT !.op = "ServicePlans", !.pkg = "config",
                        !.result = ServicePlans(listed)])

ReadServicePlansByService ==
    \E service \in ServiceNames :
        Read([NoView EXCEPT !.op = "ServicePlansByService", !.pkg = "config",
                            !.service = service,
                            !.result = ServicePlansByService(listed, service)])

\* catalog(): sc := c.ServiceClasses(), and the order the range will take
CatalogStart ==
    /\ Free
    /\ \E co \in Orders(DOMAIN ServiceClasses(listed)) :
          run' = [run EXCEPT !.pc = "plans", !.sc = ServiceClasses(listed), !.co = co,
                             !.i = 1, !.jc = <<>>, !.seen = <<listed>>,
                             !.during = {listed}]
    /\ view' = NoView
    /\ UNCHANGED <<listed, outcome, storeVars, descriptorVars, schemaVars>>

\* mutant: the plans attached to a service are taken out of the store
CatalogPlans_consuming ==
    /\ run.pc = "plans"
    /\ run.i <= Len(run.co)
    /\ LET js == NewService(run.sc[run.co[run.i]])
           plans == PlansOf(listed, js)
       IN  /\ \E po \in Orders(DOMAIN plans) :
                 run' = [run EXCEPT !.jc = AddService(@, attach(js, plans, po, 1)),
                                    !.i = @ + 1, !.seen = Append(@, listed)]
           /\ listed' = [listed EXCEPT !.plans.entries =
                            SelectSeq(@, LAMBDA x : KeyOf(x) \notin DOMAIN plans)]
    /\ UNCHANGED <<view, outcome, storeVars, descriptorVars, schemaVars>>

\* mutant: the plans are those of the store as the class listing found it
CatalogPlans_cached ==
    /\ run.pc = "plans"
    /\ run.i <= Len(run.co)
    /\ LET js == NewService(run.sc[run.co[run.i]])
           plans == PlansOf(run.seen[1], js)
       IN  \E po \in Orders(DOMAIN plans) :
              run' = [run EXCEPT !.jc = AddService(@, attach(js, plans, po, 1)),
                                 !.i = @ + 1, !.seen = Append(@, listed)]
    /\ UNCHANGED <<listed, view, outcome, storeVars, descriptorVars, schemaVars>>

\* catalog(): one turn of the range over sc: NewService, the plans of
\* ServicePlansByService(js.Name) as the store holds them now, AddService
CatalogPlans ==
    /\ run.pc = "plans"
    /\ run.i <= Len(run.co)
    /\ LET js == NewService(run.sc[run.co[run.i]])
           plans == PlansOf(listed, js)
       IN  \E po \in Orders(DOMAIN plans) :
              run' = [run EXCEPT !.jc = AddService(@, attach(js, plans, po, 1)),
                                 !.i = @ + 1, !.seen = Append(@, listed)]
    /\ UNCHANGED <<listed, view, outcome, storeVars, descriptorVars, schemaVars>>

\* catalog(): return jc
CatalogReturn ==
    /\ run.pc = "plans"
    /\ run.i > Len(run.co)
    /\ run' = [run EXCEPT !.pc = "done"]
    /\ view' = [NoView EXCEPT !.op = "catalog", !.pkg = "controller",
                              !.services = run.jc]
    /\ UNCHANGED <<listed, outcome, storeVars, descriptorVars, schemaVars>>

NextCatalog ==
    \/ WriterCreate
    \/ WriterUpdate
    \/ WriterDelete
    \/ ReadServiceClasses
    \/ ReadServicePlans
    \/ ReadServicePlansByService
    \/ CatalogStart
    \/ CatalogPlans
    \/ CatalogReturn

SpecCatalog == InitCatalog /\ [][NextCatalog]_vars

\* C21: the views and the catalog builder are read-only: ServiceClasses,
\* ServicePlans, ServicePlansByService and catalog() only List the store, so
\* no step of a view or catalog call changes what the store holds; only the
\* writer's Create, Update and Delete do.
C21_ReadOnlyViews ==
    [][run'.mutations = run.mutations => listed' = listed]_vars

C21_Witness ==
    /\ view.op = "catalog"
    /\ run.pc = "done"
    /\ run.mutations = 0
    /\ Len(view.services) = 2
    /\ Len(listed.plans.entries) = 2
    /\ listed = run.seen[1]

\* the entries of a List answer are distinct objects of the store
DistinctObjects(rs) ==
    \A i, j \in 1..Len(rs) : i # j => ~SameObject(rs[i], rs[j])

\* C22: Key(type, name, namespace) is distinct for distinct (Type, Name,
\* Namespace), so the map of ServiceClasses() / ServicePlans() has exactly
\* one item per well-typed entry that List returned, and no two distinct
\* stored objects overwrite each other in the view.
C22_KeyUniqueness ==
    (/\ view.op \in {"ServiceClasses", "ServicePlans"}
     /\ Answer(view).err = ErrNil
     /\ DistinctObjects(Answer(view).entries))
    => LET rs == Answer(view).entries
           typed == {i \in 1..Len(rs) : rs[i].Spec.kind = KindOf(view)}
       IN  /\ \A i, j \in 1..Len(rs) : i # j => KeyOf(rs[i]) # KeyOf(rs[j])
           /\ Cardinality(DOMAIN view.result) = Cardinality(typed)

\* the returned catalog is the catalog of the store state st
CatalogOf(st) ==
    \E co \in Orders(DOMAIN ServiceClasses(st)), po \in PlanOrders(st) :
        view.services = catalog(st, co, po, 1, <<>>)

Returned == view.op = "catalog" /\ run.pc = "done"

\* C23 as stated: when writes interleave with catalog(), the returned catalog
\* equals the catalog of one single store state that existed during the call.
C23_SnapshotConsistency ==
    Returned => \E st \in run.during : CatalogOf(st)

\* C23, amended: catalog() lists the classes once and the plans once per
\* class, and each listing shows the store as it is at that moment: the
\* services are the classes of the store as the class listing found it, and
\* the plans of each service are its plans in the store as the listing made
\* for that service found it. Only when all the listings of the call found
\* the same store state is the catalog the catalog of one store state.
C23_PerListingConsistency ==
    Returned =>
       LET sc == ServiceClasses(run.seen[1]) IN
       /\ Len(run.seen) = Len(view.services) + 1
       /\ run.co \in Orders(DOMAIN sc)
       /\ Len(view.services) = Cardinality(DOMAIN sc)
       /\ \A n \in 1..Len(view.services) :
             LET js == NewService(sc[run.co[n]])
                 plans == ServicePlansByService(run.seen[n + 1], js.name)
             IN  \E po \in Orders(DOMAIN plans) :
                    view.services[n] = attach(js, plans, po, 1)
       /\ (\A n \in 1..Len(run.seen) : run.seen[n] = run.seen[1])
             => CatalogOf(run.seen[1])

\* a plan for two services is attached to one of them only
C23_Witness ==
    /\ Returned
    /\ run.seen[1].plans.entries = <<Listed(servicePlanType, <<"a">>, PlanAB)>>
    /\ Len(view.services) = 2
    /\ view.services[1].name = "svc-a"
    /\ view.services[1].plans = <<NewServicePlan(PlanAB)>>
    /\ view.services[2].name = "svc-b"
    /\ view.services[2].plans = <<>>

(***************************************************************************)
(* Config Store: Get, Create, Update, Delete called by concurrent callers. *)
(* Every call is issued (Invoke), takes effect in one atomic step of the   *)
(* store, and returns (Return).                                            *)
(***************************************************************************)
\* two callers: the concurrency the store contract speaks of is pairwise
Callers == {"c1", "c2"}
Names == {<<"a">>, <<"b">>}
Revisions == {"r1", "r2"}

\* the Descriptor the store was built with
StoreDescriptor == <<ServiceClass, ServicePlan, MockConfig>>

StoreKeys == {<<mockConfigType, n, <<>>>> : n \in Names} \cup {<<widgetType, <<"a">>, <<>>>>}

EntryKey(e) == <<e.Type, e.Name, e.Namespace>>

Absent == [present |-> FALSE, entry |-> NoEntry]
Present(e) == [present |-> TRUE, entry |-> e]

\* seen and overlap are history: the revision stored when the call was issued,
\* and the callers whose call was in flight together with this one
NoReq == [op |-> None, entry |-> NoEntry, seen |-> "", overlap |-> {}]
NoResp == [err |-> None, revision |-> "", exists |-> FALSE, entry |-> NoEntry]

ErrAlreadyExists == "AlreadyExists"
ErrNotFound == "NotFound"
ErrConflict == "Conflict"

\* the entries a caller c may submit: every payload and revision for the
\* object "a", which the caller signs in Annotations, and one entry for "b"
SubmittedBy(c) ==
    [Type : {mockConfigType}, Name : {<<"a">>}, Namespace : {<<>>}, Annotations : {c},
     ResourceVersion : {""} \cup Revisions, Spec : mockConfigs]
    \cup [Type : {mockConfigType}, Name : {<<"b">>}, Namespace : {<<>>}, Annotations : {""},
          ResourceVersion : {""}, Spec : {[kind |-> "MockConfig", key |-> "k1"]}]
    \cup [Type : {widgetType}, Name : {<<"a">>}, Namespace : {<<>>}, Annotations : {c},
          ResourceVersion : {""}, Spec : {[kind |-> "MockConfig", key |-> "k1"]}]

\* the keys a caller may ask for in Get and Delete
AskedFor ==
    {[NoEntry EXCEPT !.Type = k[1], !.Name = k[2], !.Namespace = k[3]] : k \in StoreKeys}

InitStore ==
    /\ store = [k \in StoreKeys |-> Absent]
    /\ pc = [c \in Callers |-> "idle"]
    /\ req = [c \in Callers |-> NoReq]
    /\ resp = [c \in Callers |-> NoResp]
    /\ idleDescriptor
    /\ idleSchema
    /\ idleConversion
    /\ idleViews

\* validation of an Entry against the Descriptor: the Schema of its Type,
\* then Schema.Validate of its payload
ValidateEntry(e) ==
    IF ~GetByType(StoreDescriptor, e.Type).found THEN ErrUnknownSpecType
    ELSE Validate(GetByType(StoreDescriptor, e.Type).schema, e.Spec).err

\* a caller issues a call
Invoke(c) ==
    /\ pc[c] = "idle"
    /\ \E op \in {"Get", "Create", "Update", "Delete"} :
         \E e \in (IF op \in {"Create", "Update"} THEN SubmittedBy(c) ELSE AskedFor) :
            req' = [d \in Callers |->
                       IF d = c
                       THEN [op |-> op, entry |-> e,
                             seen |-> store[EntryKey(e)].entry.ResourceVersion,
                             overlap |-> {x \in Callers : pc[x] = "called"}]
                       ELSE IF pc[d] = "called"
                       THEN [req[d] EXCEPT !.overlap = @ \cup {c}]
                       ELSE req[d]]
    /\ pc' = [pc EXCEPT ![c] = "called"]
    /\ resp' = [resp EXCEPT ![c] = NoResp]
    /\ UNCHANGED <<store, descriptorVars, schemaVars, outcome, viewVars>>

Returns(c, r) ==
    /\ resp' = [resp EXCEPT ![c] = r]
    /\ pc' = [pc EXCEPT ![c] = "returned"]
    /\ UNCHANGED <<req, descriptorVars, schemaVars, outcome, viewVars>>

Fails(c, err) ==
    /\ Returns(c, [NoResp EXCEPT !.err = err])
    /\ UNCHANGED store

\* Store.Get
Get(c) ==
    /\ pc[c] = "called"
    /\ req[c].op = "Get"
    /\ Returns(c, [NoResp EXCEPT !.err = ErrNil,
                                 !.exists = store[EntryKey(req[c].entry)].present,
                                 !.entry = store[EntryKey(req[c].entry)].entry])
    /\ UNCHANGED store

\* mutant: the entry is stored as submitted, with the caller's ResourceVersion
Create_callerRevision(c) ==
    /\ pc[c] = "called"
    /\ req[c].op = "Create"
    /\ IF ValidateEntry(req[c].entry) # ErrNil THEN Fails(c, ValidateEntry(req[c].entry))
       ELSE IF store[EntryKey(req[c].entry)].present THEN Fails(c, ErrAlreadyExists)
       ELSE \E rev \in Revisions :
               /\ store' = [store EXCEPT ![EntryKey(req[c].entry)] = Present(req[c].entry)]
               /\ Returns(c, [NoResp EXCEPT !.err = ErrNil, !.revision = rev])

\* mutant: an existing object is overwritten
Create_overwrite(c) ==
    /\ pc[c] = "called"
    /\ req[c].op = "Create"
    /\ IF ValidateEntry(req[c].entry) # ErrNil THEN Fails(c, ValidateEntry(req[c].entry))
       ELSE \E rev \in Revisions :
               /\ store' = [store EXCEPT ![EntryKey(req[c].entry)] =
                               Present([req[c].entry EXCEPT !.ResourceVersion = rev])]
               /\ Returns(c, [NoResp EXCEPT !.err = ErrNil, !.revision = rev])

\* Store.Create
Create(c) ==
    /\ pc[c] = "called"
    /\ req[c].op = "Create"
    /\ IF ValidateEntry(req[c].entry) # ErrNil THEN Fails(c, ValidateEntry(req[c].entry))
       ELSE IF store[EntryKey(req[c].entry)].present THEN Fails(c, ErrAlreadyExists)
       ELSE \E rev \in Revisions :
               /\ store' = [store EXCEPT ![EntryKey(req[c].entry)] =
                               Present([req[c].entry EXCEPT !.ResourceVersion = rev])]
               /\ Returns(c, [NoResp EXCEPT !.err = ErrNil, !.revision = rev])

RevisionIndex(r) == CASE r = "" -> 0 [] r = "r1" -> 1 [] OTHER -> 2

\* mutant: the revision check is left out
Update_unchecked(c) ==
    /\ pc[c] = "called"
    /\ req[c].op = "Update"
    /\ IF ValidateEntry(req[c].entry) # ErrNil THEN Fails(c, ValidateEntry(req[c].entry))
       ELSE IF ~store[EntryKey(req[c].entry)].present THEN Fails(c, ErrNotFound)
       ELSE \E rev \in Revisions \ {store[EntryKey(req[c].entry)].entry.ResourceVersion} :
               /\ store' = [store EXCEPT ![EntryKey(req[c].entry)] =
                               Present([req[c].entry EXCEPT !.ResourceVersion = rev])]
               /\ Returns(c, [NoResp EXCEPT !.err = ErrNil, !.revision = rev])

\* mutant: only an older revision is refused
Update_ordered(c) ==
    /\ pc[c] = "called"
    /\ req[c].op = "Update"
    /\ IF ValidateEntry(req[c].entry) # ErrNil THEN Fails(c, ValidateEntry(req[c].entry))
       ELSE IF ~store[EntryKey(req[c].entry)].present THEN Fails(c, ErrNotFound)
       ELSE IF RevisionIndex(req[c].entry.ResourceVersion)
                 < RevisionIndex(store[EntryKey(req[c].entry)].entry.ResourceVersion)
       THEN Fails(c, ErrConflict)
       ELSE \E rev \in Revisions \ {store[EntryKey(req[c].entry)].entry.ResourceVersion} :
               /\ store' = [store EXCEPT ![EntryKey(req[c].entry)] =
                               Present([req[c].entry EXCEPT !.ResourceVersion = rev])]
               /\ Returns(c, [NoResp EXCEPT !.err = ErrNil, !.revision = rev])

\* Store.Update
Update(c) ==
    /\ pc[c] = "called"
    /\ req[c].op = "Update"
    /\ IF ValidateEntry(req[c].entry) # ErrNil THEN Fails(c, ValidateEntry(req[c].entry))
       ELSE IF ~store[EntryKey(req[c].entry)].present THEN Fails(c, ErrNotFound)
       ELSE IF req[c].entry.ResourceVersion
                 # store[EntryKey(req[c].entry)].entry.ResourceVersion
       THEN Fails(c, ErrConflict)
       ELSE \E rev \in Revisions \ {store[EntryKey(req[c].entry)].entry.ResourceVersion} :
               /\ store' = [store EXCEPT ![EntryKey(req[c].entry)] =
                               Present([req[c].entry EXCEPT !.ResourceVersion = rev])]
               /\ Returns(c, [NoResp EXCEPT !.err = ErrNil, !.revision = rev])

\* mutant: deleting an absent object succeeds
Delete_idempotent(c) ==
    /\ pc[c] = "called"
    /\ req[c].op = "Delete"
    /\ store' = [store EXCEPT ![EntryKey(req[c].entry)] = Absent]
    /\ Returns(c, [NoResp EXCEPT !.err = ErrNil])

\* Store.Delete
Delete(c) ==
    /\ pc[c] = "called"
    /\ req[c].op = "Delete"
    /\ IF ~store[EntryKey(req[c].entry)].present THEN Fails(c, ErrNotFound)
       ELSE /\ store' = [store EXCEPT ![EntryKey(req[c].entry)] = Absent]
            /\ Returns(c, [NoResp EXCEPT !.err = ErrNil])

\* the caller has read the result and is free to call again
Return(c) ==
    /\ pc[c] = "returned"
    /\ pc' = [pc EXCEPT ![c] = "idle"]
    /\ req' = [req EXCEPT ![c] = NoReq]
    /\ resp' = [resp EXCEPT ![c] = NoResp]
    /\ UNCHANGED <<store, descriptorVars, schemaVars, outcome, viewVars>>

Next ==
    \E c \in Callers :
        \/ Invoke(c)
        \/ Get(c)
        \/ Create(c)
        \/ Update(c)
        \/ Delete(c)
        \/ Return(c)

Spec == InitStore /\ [][Next]_vars

(***************************************************************************)
(* Claims on the Config Store                                              *)
(***************************************************************************)
\* the atomic step in which the store serves the call of c
Serves(c) == pc[c] = "called" /\ pc'[c] = "returned"

Slot(c) == store[EntryKey(req[c].entry)]

\* the Entry names a registered type and its payload passes that type's validator
Acceptable(e) ==
    \E i \in 1..Len(StoreDescriptor) :
        /\ StoreDescriptor[i].Type = e.Type
        /\ \/ StoreDescriptor[i].AdditionalValidate = "nil"
           \/ AdditionalValidate(StoreDescriptor[i].AdditionalValidate, e.Spec) = ErrNil

StoreErrors == {ErrAlreadyExists, ErrNotFound, ErrConflict}

\* two acceptable Updates of the same object, both carrying the revision r1
\* that was stored while both were in flight, have both returned
ConcurrentUpdates(c, d, r1) ==
    /\ c # d
    /\ pc[c] = "returned" /\ pc[d] = "returned"
    /\ req[c].op = "Update" /\ req[d].op = "Update"
    /\ EntryKey(req[c].entry) = EntryKey(req[d].entry)
    /\ Acceptable(req[c].entry) /\ Acceptable(req[d].entry)
    /\ req[c].entry.ResourceVersion = r1 /\ req[d].entry.ResourceVersion = r1
    /\ req[c].seen = r1 /\ req[d].seen = r1
    /\ c \in req[d].overlap /\ d \in req[c].overlap

C2_CreateUniqueness ==
    [][\A c \in Callers :
          (Serves(c) /\ req[c].op = "Create" /\ Slot(c).present) =>
              /\ resp'[c].err # ErrNil
              /\ store' = store
              /\ Acceptable(req[c].entry) => resp'[c].err = ErrAlreadyExists]_vars

\* a second Create with another payload was refused, the first one is stored
C2_Witness ==
    \E c \in Callers :
        /\ pc[c] = "returned"
        /\ req[c].op = "Create"
        /\ resp[c].err = ErrAlreadyExists
        /\ Slot(c).present
        /\ Slot(c).entry.Spec # req[c].entry.Spec

\* C3: an acceptable Update fails with NotFound on an Absent key, fails with
\* Conflict exactly when its ResourceVersion differs from the stored one, and
\* a failed Update leaves the store as it was.
C3_UpdateRejection ==
    [][\A c \in Callers :
          (Serves(c) /\ req[c].op = "Update" /\ Acceptable(req[c].entry)) =>
              /\ ~Slot(c).present => (resp'[c].err = ErrNotFound /\ store' = store)
              /\ (Slot(c).present
                  /\ req[c].entry.ResourceVersion # Slot(c).entry.ResourceVersion)
                    => (resp'[c].err = ErrConflict /\ store' = store)
              /\ (Slot(c).present
                  /\ req[c].entry.ResourceVersion = Slot(c).entry.ResourceVersion)
                    => resp'[c].err = ErrNil]_vars

\* an Update carrying r2 was refused while r1 is stored
C3_Witness ==
    \E c \in Callers :
        /\ pc[c] = "returned"
        /\ req[c].op = "Update"
        /\ resp[c].err = ErrConflict
        /\ req[c].entry.ResourceVersion = "r2"
        /\ Slot(c).present
        /\ Slot(c).entry.ResourceVersion = "r1"

\* C4: a Present object carries a non-empty revision; a successful Create or
\* Update stores the revision it returns, which an Update makes different from
\* the one stored before; nothing else changes the revision of an object.
C4_RevisionAssignment ==
    /\ [](\A k \in StoreKeys : store[k].present => store[k].entry.ResourceVersion # "")
    /\ [][/\ \A c \in Callers :
                (Serves(c) /\ req[c].op \in {"Create", "Update"} /\ resp'[c].err = ErrNil) =>
                    /\ store'[EntryKey(req[c].entry)].present
                    /\ store'[EntryKey(req[c].entry)].entry.ResourceVersion = resp'[c].revision
                    /\ resp'[c].revision # ""
                    /\ req[c].op = "Update" => resp'[c].revision # Slot(c).entry.ResourceVersion
          /\ \A k \in StoreKeys :
                (store[k].present /\ store'[k].present
                 /\ store'[k].entry.ResourceVersion # store[k].entry.ResourceVersion) =>
                    \E c \in Callers :
                        /\ Serves(c) /\ req[c].op = "Update" /\ EntryKey(req[c].entry) = k
                        /\ resp'[c].err = ErrNil]_vars

\* a Create submitted with a ResourceVersion of its own got another one
C4_Witness ==
    \E c \in Callers :
        /\ pc[c] = "returned"
        /\ req[c].op = "Create"
        /\ resp[c].err = ErrNil
        /\ req[c].entry.ResourceVersion = "r1"
        /\ resp[c].revision = "r2"
        /\ Slot(c).entry.ResourceVersion = "r2"

C6_ValidationBeforeMutation ==
    [][\A c \in Callers :
          (Serves(c) /\ req[c].op \in {"Create", "Update"} /\ ~Acceptable(req[c].entry)) =>
              /\ resp'[c].err \notin {ErrNil} \cup StoreErrors
              /\ store' = store]_vars

\* an Update with a refused payload returned the validator's error and the
\* stored object is still there
C6_Witness ==
    \E c \in Callers :
        /\ pc[c] = "returned"
        /\ req[c].op = "Update"
        /\ req[c].entry.Spec.key = ""
        /\ resp[c].err = ErrEmptyKey
        /\ Slot(c).present
        /\ Slot(c).entry.ResourceVersion = req[c].entry.ResourceVersion

====
